---- MODULE Spec2Model ----
(***************************************************************************)
(* CrossRetail price intelligence: the BigQuery table                      *)
(* retail_intelligence.products, the views of                              *)
(* backend/scripts/create_bigquery_views.sql computed over it, and the     *)
(* arbitrage page that queries them.                                       *)
(*                                                                         *)
(* Time is counted in days.  Prices are whole dollars.  A ratio such as    *)
(* profit_margin_pct is kept exact as numerator and denominator and is     *)
(* compared by cross-multiplication.  A text that the code takes apart     *)
(* (the product_ids parameter of the compare page) is a sequence of        *)
(* characters.                                                             *)
(***************************************************************************)
EXTENDS Integers, Sequences, FiniteSets, TLC

VARIABLES
    products,        \* the table retail_intelligence.products, in insertion order
    now,             \* CURRENT_TIMESTAMP(), in days
    latest_prices,   \* last result of the view latest_prices for this table and time
    arbitrage,       \* last result of the arbitrage query for these thresholds
    minMargin,       \* ArbitragePage state
    minPriceDiff,    \* ArbitragePage state
    price_history_aggregated,  \* last result of the view price_history_aggregated
    price_history,   \* last response to a price-history request
    product_brands,  \* last result of the view product_brands
    selectedProducts,  \* CompareContent state
    comparison,      \* last request the comparison query of CompareContent sent
    resolvedParams,  \* ProductDetailPage: the parameters of the route
    productQuery,    \* ProductDetailPage: the query ['product', productId]
    filters,         \* SearchFilters state
    pageFilters,     \* SearchPage state filters
    page,            \* SearchPage state
    searchData,      \* SearchPage: the query ['products', 'search', filters, page]
    cache,           \* Query Facade: the cached snapshot of each key
    building,        \* Query Facade: the snapshot a refresh is building, per key
    served           \* Query Facade: the last response each caller received

\* the table, the clock, the results read from the views, ArbitragePage
engineVars == <<products, now, latest_prices, arbitrage, minMargin, minPriceDiff,
                price_history_aggregated, price_history, product_brands>>

comparePageVars == <<selectedProducts, comparison>>

productPageVars == <<resolvedParams, productQuery>>

searchPageVars == <<filters, pageFilters, page, searchData>>

facadeVars == <<cache, building, served>>

\* the state of the other pages and of the cache in front of the views
pageVars == <<comparePageVars, productPageVars, searchPageVars, facadeVars>>

vars == <<products, now, latest_prices, arbitrage, minMargin, minPriceDiff,
          price_history_aggregated, price_history, product_brands, pageVars>>

-----------------------------------------------------------------------------
(* Bounds of the model *)

MaxRows == 3
MaxDay == 2

-----------------------------------------------------------------------------
(* Program constants *)

W_LATEST_DAYS == 30
DEFAULT_MIN_MARGIN == 10
DEFAULT_MIN_PRICE_DIFF == 5
PAGE_LIMIT == 50
NULL == -1
\* INTERVAL 90 DAY of price_history_aggregated
RETENTION_DAYS == 90
\* the days ProductDetailPage asks the price history for
HISTORY_DAYS == 30
\* NULL in a STRING column (brand, currency)
NullText == "<null>"

RETAILERS == <<"amazon", "walmart", "kohls", "kmart">>

Sites == {RETAILERS[i] : i \in DOMAIN RETAILERS}

-----------------------------------------------------------------------------
(* Helpers *)

Max(S) == CHOOSE x \in S : \A y \in S : y <= x
Min(S) == CHOOSE x \in S : \A y \in S : x <= y

NotQueried == [status |-> "none", rows |-> {}]
ArbNotQueried == [status |-> "none", rows |-> <<>>]
HistoryNotRequested == [status |-> "none", product_id |-> "", days |-> 0, rows |-> {}]
CompareNotRequested == [status |-> "none", product_ids |-> <<>>]

\* no product: data of a query that has not answered, or an answer without
\* a product
NoProduct == [product_id |-> ""]

\* a query on its first fetch: no data, no error
QueryLoading == [status |-> "loading", data |-> NoProduct]

\* the pages as they are when first rendered
ComparePageInit ==
    /\ selectedProducts = <<>>
    /\ comparison = CompareNotRequested

ProductPageInit ==
    /\ resolvedParams = [id |-> "P1"]
    /\ productQuery = QueryLoading

\* useState of SearchFilters and of SearchPage
ClearedFilters ==
    [query |-> "", brands |-> <<>>, retailers |-> <<>>,
     minPrice |-> NULL, maxPrice |-> NULL]

SearchLoading == [status |-> "loading", total_pages |-> 0, empty |-> TRUE]

SearchPageInit ==
    /\ filters = ClearedFilters
    /\ pageFilters = ClearedFilters
    /\ page = 1
    /\ searchData = SearchLoading

\* the callers of the Query Facade
Callers == {1, 2}

\* the key of a cached response: the operation and its parameter tuple
CacheKey(margin, diff, limit) == <<"GetArbitrageOpportunities", margin, diff, limit>>

\* the keys the arbitrage page asks for with its default thresholds
CacheKeys == {CacheKey(DEFAULT_MIN_MARGIN, DEFAULT_MIN_PRICE_DIFF, PAGE_LIMIT)}

NoEntry == [status |-> "none", computed_at |-> 0, value |-> ArbNotQueried]
NotBuilding == [status |-> "idle", caller |-> 0, value |-> ArbNotQueried]
NotServed == [status |-> "none", key |-> <<>>, at |-> 0, computed_at |-> 0,
              value |-> ArbNotQueried]

FacadeInit ==
    /\ cache = [k \in CacheKeys |-> NoEntry]
    /\ building = [k \in CacheKeys |-> NotBuilding]
    /\ served = [c \in Callers |-> NotServed]

PagesInit == ComparePageInit /\ ProductPageInit /\ SearchPageInit /\ FacadeInit

-----------------------------------------------------------------------------
(* The view latest_prices *)

\* the window with its boundary day left out
InWindowStrict(row, t) == row.scraped_at > t - W_LATEST_DAYS

\* the recency window taken as long as that of the price history
InWindowRetention(row, t) == row.scraped_at >= t - RETENTION_DAYS

\* WHERE scraped_at >= TIMESTAMP_SUB(CURRENT_TIMESTAMP(), INTERVAL 30 DAY)
InWindow(row, t) == row.scraped_at >= t - W_LATEST_DAYS

\* the rows of one PARTITION BY product_id, site that pass the WHERE clause
PartitionRows(table, t, p, s) ==
    {i \in DOMAIN table :
        /\ table[i].product_id = p
        /\ table[i].site = s
        /\ InWindow(table[i], t)}

\* the partitions that hold at least one row
Partitions(table, t) ==
    {<<table[i].product_id, table[i].site>> :
        i \in {j \in DOMAIN table : InWindow(table[j], t)}}

\* the partition ordered by scraped_at ascending
RowNumberOneAscending(table, t, p, s) ==
    LET part == PartitionRows(table, t, p, s)
    IN  {i \in part : \A j \in part : table[i].scraped_at <= table[j].scraped_at}

\* ORDER BY scraped_at DESC ... QUALIFY rn = 1: the rows that may get row number
\* 1; the order among rows of equal scraped_at is left to the engine
RowNumberOne(table, t, p, s) ==
    LET part == PartitionRows(table, t, p, s)
    IN  {i \in part : \A j \in part : table[j].scraped_at <= table[i].scraped_at}

\* a row of the view: the table's columns, and the position of the table row
\* it was taken from
ViewRow(table, i) == [seq |-> i] @@ table[i]

\* every result the view may have over a table at time t: one row of row
\* number 1 from each partition
LatestPricesOutcomes(table, t) ==
    LET parts == Partitions(table, t)
        cands == UNION {RowNumberOne(table, t, pr[1], pr[2]) : pr \in parts}
        picks == {S \in SUBSET cands :
                     \A pr \in parts :
                         Cardinality(S \cap RowNumberOne(table, t, pr[1], pr[2])) = 1}
    IN  {[status |-> "ok", rows |-> {ViewRow(table, i) : i \in S}] : S \in picks}

-----------------------------------------------------------------------------
(* The view arbitrage_opportunities *)

\* FROM latest WHERE price IS NOT NULL
Priced(latest) == {r \in latest : r.price # NULL}

\* GROUP BY product_id, title
GroupKeys(latest) == {<<r.product_id, r.title>> : r \in Priced(latest)}

GroupRows(latest, g) ==
    {r \in Priced(latest) : r.product_id = g[1] /\ r.title = g[2]}

\* MIN(price) as min_price, MAX(price) as max_price
MinPrice(latest, g) == Min({r.price : r \in GroupRows(latest, g)})
MaxPrice(latest, g) == Max({r.price : r \in GroupRows(latest, g)})

\* MAX(price) - MIN(price) as price_diff
PriceDiff(latest, g) == MaxPrice(latest, g) - MinPrice(latest, g)

\* (MAX(price) - MIN(price)) / MIN(price) * 100 as profit_margin_pct, kept as
\* <<numerator, denominator>>; the denominator is MIN(price)
ProfitMarginPct(latest, g) == <<PriceDiff(latest, g) * 100, MinPrice(latest, g)>>

\* the division of profit_margin_pct has a zero divisor in some group: BigQuery
\* fails the whole query with "division by zero"
DivisionByZero(latest) == \E g \in GroupKeys(latest) : MinPrice(latest, g) = 0

\* q >= n for a ratio q with a positive denominator
RatioAtLeast(q, n) == q[1] >= n * q[2]

\* q1 >= q2 for ratios with positive denominators
RatioGE(q1, q2) == q1[1] * q2[2] >= q2[1] * q1[2]

\* the margin test turned round: keeps the groups at or below the threshold
HavingMarginAtMost(latest, g, margin, diff) ==
    /\ RatioAtLeast(<<margin * MinPrice(latest, g), 1>>, PriceDiff(latest, g) * 100)
    /\ PriceDiff(latest, g) >= diff

\* HAVING profit_margin_pct >= <minimum margin> AND price_diff >= <minimum
\* difference>; the view is written with 5 and 1.0, the page sends its own two
\* thresholds
Having(latest, g, margin, diff) ==
    /\ RatioAtLeast(ProfitMarginPct(latest, g), margin)
    /\ PriceDiff(latest, g) >= diff

\* ARRAY_AGG(site ORDER BY price LIMIT 1)[OFFSET(0)]: any site of the group at
\* the lowest price; the order among equal prices is left to the engine
CheapestRetailers(latest, g) ==
    {r.site : r \in {x \in GroupRows(latest, g) : x.price = MinPrice(latest, g)}}

\* ARRAY_AGG(site ORDER BY price DESC LIMIT 1)[OFFSET(0)]
ExpensiveRetailers(latest, g) ==
    {r.site : r \in {x \in GroupRows(latest, g) : x.price = MaxPrice(latest, g)}}

\* the rows price_comparison may produce for one group
GroupOpportunities(latest, g) ==
    {[product_id |-> g[1],
      title |-> g[2],
      min_price |-> MinPrice(latest, g),
      max_price |-> MaxPrice(latest, g),
      price_diff |-> PriceDiff(latest, g),
      profit_margin_pct |-> ProfitMarginPct(latest, g),
      retailer_count |-> Cardinality({r.site : r \in GroupRows(latest, g)}),
      cheapest_retailer |-> c,
      expensive_retailer |-> e] :
        c \in CheapestRetailers(latest, g), e \in ExpensiveRetailers(latest, g)}

\* ORDER BY profit_margin_pct DESC, and nothing else
OrderedByMargin(s) ==
    \A i, j \in DOMAIN s :
        i < j => RatioGE(s[i].profit_margin_pct, s[j].profit_margin_pct)

\* every sequence of rows the CTE price_comparison, ordered by the outer
\* SELECT, may yield
price_comparison(latest, margin, diff) ==
    LET kept == {g \in GroupKeys(latest) : Having(latest, g, margin, diff)}
        cand == UNION {GroupOpportunities(latest, g) : g \in kept}
        n == Cardinality(kept)
    IN  {s \in [1..n -> cand] :
            /\ \A i, j \in 1..n :
                   i # j => <<s[i].product_id, s[i].title>> # <<s[j].product_id, s[j].title>>
            /\ OrderedByMargin(s)}

\* LIMIT: the first rows of the ordered result
Limit(s, limit) == SubSeq(s, 1, IF Len(s) < limit THEN Len(s) ELSE limit)

\* every response the arbitrage query may give over a result of latest_prices
ArbitrageOutcomes(latest, margin, diff, limit) ==
    IF DivisionByZero(latest)
    THEN {[status |-> "error", rows |-> <<>>]}
    ELSE {[status |-> "ok", rows |-> Limit(s, limit)] :
             s \in price_comparison(latest, margin, diff)}

-----------------------------------------------------------------------------
(* The threshold inputs of ArbitragePage *)

\* what the user may leave in a number input
TypedValues == {"", "0", "5", "10", "-5"}

\* parseFloat(e.target.value)
ParseFloat(text) ==
    CASE text = ""   -> [nan |-> TRUE, value |-> 0]
      [] text = "0"  -> [nan |-> FALSE, value |-> 0]
      [] text = "5"  -> [nan |-> FALSE, value |-> 5]
      [] text = "10" -> [nan |-> FALSE, value |-> 10]
      [] text = "-5" -> [nan |-> FALSE, value |-> 0 - 5]

\* parseFloat(e.target.value) || 0: NaN and 0 are falsy
ParseFloatOrZero(text) ==
    LET x == ParseFloat(text)
    IN  IF x.nan \/ x.value = 0 THEN 0 ELSE x.value

-----------------------------------------------------------------------------
(* Operations *)
(* A query over a view reads the table as it is at that moment, so a result *)
(* describes one table content and one time: an insert or the passing of a  *)
(* day drops the results read before it.  latest_prices holds the rows the  *)
(* last query over that view read, so a query that reads it anew drops the  *)
(* results computed from the rows read before.                              *)

\* a batch insert of one scraped item into retail_intelligence.products
Ingest(row) ==
    /\ Len(products) < MaxRows
    /\ row.scraped_at <= now
    /\ products' = Append(products, row)
    /\ latest_prices' = NotQueried
    /\ arbitrage' = ArbNotQueried
    /\ price_history_aggregated' = NotQueried
    /\ price_history' = HistoryNotRequested
    /\ product_brands' = ArbNotQueried
    /\ UNCHANGED <<pageVars, now, minMargin, minPriceDiff>>

\* a day passes
Tick ==
    /\ now < W_LATEST_DAYS + MaxDay + 1
    /\ now' = now + 1
    /\ latest_prices' = NotQueried
    /\ arbitrage' = ArbNotQueried
    /\ price_history_aggregated' = NotQueried
    /\ price_history' = HistoryNotRequested
    /\ product_brands' = ArbNotQueried
    /\ UNCHANGED <<pageVars, products, minMargin, minPriceDiff>>

\* SELECT * FROM retail_intelligence.latest_prices
QueryLatestPrices ==
    /\ \E out \in LatestPricesOutcomes(products, now) : latest_prices' = out
    /\ arbitrage' = ArbNotQueried
    /\ product_brands' = ArbNotQueried
    /\ UNCHANGED <<pageVars, products, now, minMargin, minPriceDiff,
                   price_history_aggregated, price_history>>

\* onChange of the "Minimum Profit Margin (%)" input; a new query key drops the
\* data of the old one
setMinMargin(text) ==
    /\ minMargin' = ParseFloatOrZero(text)
    /\ arbitrage' = IF minMargin' = minMargin THEN arbitrage ELSE ArbNotQueried
    /\ UNCHANGED <<pageVars, products, now, latest_prices, minPriceDiff,
                   price_history_aggregated, price_history, product_brands>>

\* onChange of the "Minimum Price Difference ($)" input
setMinPriceDiff(text) ==
    /\ minPriceDiff' = ParseFloatOrZero(text)
    /\ arbitrage' = IF minPriceDiff' = minPriceDiff THEN arbitrage ELSE ArbNotQueried
    /\ UNCHANGED <<pageVars, products, now, latest_prices, minMargin,
                   price_history_aggregated, price_history, product_brands>>

\* queryFn: api.getArbitrageOpportunities(minMargin, minPriceDiff, 50), answered
\* from arbitrage_opportunities WITH latest AS (SELECT * FROM latest_prices)
getArbitrageOpportunities ==
    /\ \E lp \in LatestPricesOutcomes(products, now) :
          /\ latest_prices' = lp
          /\ product_brands' = IF lp = latest_prices THEN product_brands
                                ELSE ArbNotQueried
          /\ \E out \in ArbitrageOutcomes(lp.rows, minMargin, minPriceDiff, PAGE_LIMIT) :
                arbitrage' = out
    /\ UNCHANGED <<pageVars, products, now, minMargin, minPriceDiff,
                   price_history_aggregated, price_history>>

-----------------------------------------------------------------------------
(* Ingestion and the latest-price view *)

StoreRows ==
    [product_id : {"P1"}, site : {"amazon", "walmart"}, scraped_at : 0..MaxDay,
     price : {80, 100}, title : {"A"}]

Init ==
    /\ products = <<>>
    /\ now = W_LATEST_DAYS
    /\ latest_prices = NotQueried
    /\ arbitrage = ArbNotQueried
    /\ minMargin = DEFAULT_MIN_MARGIN
    /\ minPriceDiff = DEFAULT_MIN_PRICE_DIFF
    /\ price_history_aggregated = NotQueried
    /\ price_history = HistoryNotRequested
    /\ product_brands = ArbNotQueried
    /\ PagesInit

Next ==
    \/ \E row \in StoreRows : Ingest(row)
    \/ Tick
    \/ QueryLatestPrices

Spec == Init /\ [][Next]_vars

-----------------------------------------------------------------------------
(* The arbitrage page over a loaded table *)

\* what a retailer may hold for a product: nothing, or a price under a title
Absent == [price |-> NULL, title |-> "-"]

Listings(prices, titles) == {Absent} \cup [price : prices, title : titles]

\* the table of the listings f[i] of the cells <<product_id, site, scraped_at>>
TableOf(cells, f) ==
    LET all == [i \in DOMAIN cells |->
                   [product_id |-> cells[i][1], site |-> cells[i][2],
                    scraped_at |-> cells[i][3],
                    price |-> f[i].price, title |-> f[i].title]]
    IN  SelectSeq(all, LAMBDA r : r.title # Absent.title)

\* one product at the four retailers, each listing under one of two titles
OneProductCells ==
    <<<<"P1", "amazon", 0>>, <<"P1", "walmart", 0>>,
      <<"P1", "kohls", 0>>, <<"P1", "kmart", 0>>>>

OneProductTables ==
    {TableOf(OneProductCells, f) :
        f \in [DOMAIN OneProductCells -> Listings({80, 100}, {"A", "B"})]}

\* two products at amazon and walmart under one title, with prices that may be
\* null or zero, and the second product at kohls a day later
TwoProductCells ==
    <<<<"P1", "amazon", 0>>, <<"P1", "walmart", 0>>,
      <<"P2", "amazon", 0>>, <<"P2", "walmart", 0>>, <<"P2", "kohls", 1>>>>

TwoProductTables ==
    {TableOf(TwoProductCells, f) :
        f \in {g \in [DOMAIN TwoProductCells -> Listings({NULL, 0, 80, 100, 120}, {"A"})] :
                  /\ \A i \in 1..4 : g[i].price # 120
                  /\ g[5].price \in {NULL, 120}
                  /\ g[5] # [price |-> NULL, title |-> "A"]}}

InitArb ==
    /\ products \in OneProductTables \cup TwoProductTables
    /\ now = W_LATEST_DAYS
    /\ latest_prices = NotQueried
    /\ arbitrage = ArbNotQueried
    /\ minMargin = DEFAULT_MIN_MARGIN
    /\ minPriceDiff = DEFAULT_MIN_PRICE_DIFF
    /\ price_history_aggregated = NotQueried
    /\ price_history = HistoryNotRequested
    /\ product_brands = ArbNotQueried
    /\ PagesInit

NextArb ==
    \/ \E text \in TypedValues : setMinMargin(text)
    \/ \E text \in TypedValues : setMinPriceDiff(text)
    \/ getArbitrageOpportunities

SpecArb == InitArb /\ [][NextArb]_vars

-----------------------------------------------------------------------------
(* Properties of the latest-price view *)

ProductIds == {"P1", "P2"}

\* the observations of a pair inside the recency window
ObservationsInWindow(p, s) ==
    {i \in DOMAIN products :
        /\ products[i].product_id = p
        /\ products[i].site = s
        /\ products[i].scraped_at >= now - W_LATEST_DAYS}

\* C1: every row of the latest-price output is an observation of its pair, is
\* not older than now - 30 days, and has the greatest scraped_at among the
\* pair's observations of the last 30 days.
LatestPriceIsNewestInWindow ==
    latest_prices.status = "ok" =>
        \A r \in latest_prices.rows :
            /\ r.seq \in DOMAIN products
            /\ r = ViewRow(products, r.seq)
            /\ r.scraped_at >= now - W_LATEST_DAYS
            /\ \A i \in ObservationsInWindow(r.product_id, r.site) :
                   products[i].scraped_at <= r.scraped_at

\* a pair with an older and a newer observation in the window and one outside
\* it has been resolved
LatestPriceIsNewestInWindowWitness ==
    /\ latest_prices.status = "ok"
    /\ \E r \in latest_prices.rows :
           /\ \E i \in ObservationsInWindow(r.product_id, r.site) :
                  products[i].scraped_at < r.scraped_at
           /\ \E j \in DOMAIN products :
                  /\ products[j].product_id = r.product_id
                  /\ products[j].site = r.site
                  /\ products[j].scraped_at < now - W_LATEST_DAYS

\* C2: among the observations of a pair that share the greatest scraped_at in
\* the window, the latest-price output holds the columns of the one ingested
\* last.
LatestPriceTieBySequence ==
    latest_prices.status = "ok" =>
        \A r \in latest_prices.rows :
            LET last == Max({i \in ObservationsInWindow(r.product_id, r.site) :
                                products[i].scraped_at = r.scraped_at})
            IN  [r EXCEPT !.seq = last] = ViewRow(products, last)

\* C3: the latest-price output holds exactly one row for a pair with an
\* observation in the window and none for any other pair.
LatestPriceOnePerPair ==
    latest_prices.status = "ok" =>
        \A p \in ProductIds, s \in Sites :
            Cardinality({r \in latest_prices.rows : r.product_id = p /\ r.site = s})
                = IF ObservationsInWindow(p, s) # {} THEN 1 ELSE 0

\* one pair is resolved while another, observed only before the window, is
\* absent
LatestPriceOnePerPairWitness ==
    /\ latest_prices.status = "ok"
    /\ latest_prices.rows # {}
    /\ \E j \in DOMAIN products :
           /\ ObservationsInWindow(products[j].product_id, products[j].site) = {}
           /\ \A r \in latest_prices.rows :
                  ~(r.product_id = products[j].product_id /\ r.site = products[j].site)

-----------------------------------------------------------------------------
(* Properties of the arbitrage query, stated over the latest-price rows it read *)

\* site names and product ids in lexicographic order
SitesInOrder == <<"amazon", "kmart", "kohls", "walmart">>
ProductIdsInOrder == <<"P1", "P2">>

Rank(order, x) == CHOOSE i \in DOMAIN order : order[i] = x

\* the latest-price rows of a product that carry a price
PricedRows(p) == {r \in latest_prices.rows : r.product_id = p /\ r.price # NULL}
PricedSites(p) == {r.site : r \in PricedRows(p)}
ProductMin(p) == Min({r.price : r \in PricedRows(p)})
ProductMax(p) == Max({r.price : r \in PricedRows(p)})

\* price_diff / min_price * 100 >= margin, for min_price > 0
MarginAtLeast(diff, minprice, margin) == diff * 100 >= margin * minprice

\* a product the detector is to return for the page's thresholds
Qualifies(p) ==
    /\ Cardinality(PricedSites(p)) >= 2
    /\ ProductMin(p) > 0
    /\ MarginAtLeast(ProductMax(p) - ProductMin(p), ProductMin(p), minMargin)
    /\ ProductMax(p) - ProductMin(p) >= minPriceDiff

Returned(p) == \E i \in DOMAIN arbitrage.rows : arbitrage.rows[i].product_id = p

\* the site of S that sorts first
FirstSite(S) == CHOOSE s \in S : \A x \in S : Rank(SitesInOrder, s) <= Rank(SitesInOrder, x)

\* C4: every returned opportunity meets both thresholds, and every product
\* with two priced retailers and a positive minimum price that meets both is
\* returned (the limit of 50 permitting).
ArbitrageBothThresholds ==
    arbitrage.status = "ok" =>
        /\ \A i \in DOMAIN arbitrage.rows :
               LET o == arbitrage.rows[i]
               IN  /\ MarginAtLeast(o.price_diff, o.min_price, minMargin)
                   /\ o.price_diff >= minPriceDiff
        /\ \A p \in ProductIds :
               (PricedRows(p) # {} /\ Qualifies(p)) =>
                   Returned(p) \/ Len(arbitrage.rows) = PAGE_LIMIT

\* C5: a product whose minimum latest price is not positive is never returned,
\* and the margin is never divided by a zero minimum price.
ArbitrageNoDivisionByZero ==
    /\ arbitrage.status # "error"
    /\ arbitrage.status = "ok" =>
           \A p \in ProductIds :
               (PricedRows(p) # {} /\ ProductMin(p) <= 0) => ~Returned(p)

ArbitrageOnePerProduct ==
    arbitrage.status = "ok" =>
        \A i, j \in DOMAIN arbitrage.rows :
            i # j => arbitrage.rows[i].product_id # arbitrage.rows[j].product_id

\* C8: the fields of a returned opportunity are taken over all priced
\* latest-price rows of its product, and the example of amazon 100, walmart 80
\* and another product at kohls 120 under thresholds 10 and 5 gives the one
\* opportunity 80, 100, 20, 25 per cent, walmart, amazon.
ArbitrageFields ==
    arbitrage.status = "ok" =>
        /\ \A i \in DOMAIN arbitrage.rows :
               LET o == arbitrage.rows[i]
                   p == o.product_id
               IN  /\ o.min_price = ProductMin(p)
                   /\ o.max_price = ProductMax(p)
                   /\ o.price_diff = o.max_price - o.min_price
                   /\ o.profit_margin_pct[1] * o.min_price
                          = o.price_diff * 100 * o.profit_margin_pct[2]
                   /\ o.retailer_count = Cardinality(PricedSites(p))
        /\ ( /\ {<<r.product_id, r.site, r.price>> : r \in latest_prices.rows}
                    = {<<"P1", "amazon", 100>>, <<"P1", "walmart", 80>>,
                       <<"P2", "kohls", 120>>}
             /\ minMargin = 10
             /\ minPriceDiff = 5 )
           => /\ Len(arbitrage.rows) = 1
              /\ LET o == arbitrage.rows[1]
                 IN  /\ o.product_id = "P1"
                     /\ o.min_price = 80
                     /\ o.max_price = 100
                     /\ o.price_diff = 20
                     /\ o.profit_margin_pct[1] = 25 * o.profit_margin_pct[2]
                     /\ o.cheapest_retailer = "walmart"
                     /\ o.expensive_retailer = "amazon"

\* the priced latest-price rows of a product carry one title
OneTitle(p) == Cardinality({r.title : r \in PricedRows(p)}) = 1

\* C9: cheapest_retailer is the first, in lexicographic order, of the sites at
\* the product's minimum price, and expensive_retailer the first of those at
\* its maximum price (stated for products listed under one title).
ArbitrageRetailerTieBreak ==
    arbitrage.status = "ok" =>
        \A i \in DOMAIN arbitrage.rows :
            LET o == arbitrage.rows[i]
                p == o.product_id
            IN  OneTitle(p) =>
                    /\ o.cheapest_retailer
                         = FirstSite({r.site : r \in {x \in PricedRows(p) :
                                                         x.price = ProductMin(p)}})
                    /\ o.expensive_retailer
                         = FirstSite({r.site : r \in {x \in PricedRows(p) :
                                                         x.price = ProductMax(p)}})

\* C10: the output is ordered by margin descending, then price_diff
\* descending, then product_id ascending.
ArbitrageTotalOrder ==
    arbitrage.status = "ok" =>
        \A i, j \in DOMAIN arbitrage.rows :
            i < j =>
                LET a == arbitrage.rows[i]
                    b == arbitrage.rows[j]
                    gt == a.profit_margin_pct[1] * b.profit_margin_pct[2]
                              > b.profit_margin_pct[1] * a.profit_margin_pct[2]
                    eq == a.profit_margin_pct[1] * b.profit_margin_pct[2]
                              = b.profit_margin_pct[1] * a.profit_margin_pct[2]
                IN  \/ gt
                    \/ eq /\ a.price_diff > b.price_diff
                    \/ /\ eq
                       /\ a.price_diff = b.price_diff
                       /\ Rank(ProductIdsInOrder, a.product_id)
                              <= Rank(ProductIdsInOrder, b.product_id)

-----------------------------------------------------------------------------
(* The view price_history_aggregated *)
(* A timestamp is a day number, scraped_at, and where a table records it a  *)
(* time_of_day within that day; the clock now stands at the start of its    *)
(* day, so a timestamp is inside a window of whole days exactly when its    *)
(* day is.                                                                  *)

\* DATE(scraped_at): the day of the timestamp, without the time of day
Date(row) == row.scraped_at

\* STRING values in the order of the default collation
Collation == <<"", "Acme", "Bolt", "CAD", "USD">>
CollationRank(x) == CHOOSE i \in DOMAIN Collation : Collation[i] = x

\* MAX over a STRING column: nulls are skipped, NULL when nothing is left
MaxText(S) ==
    LET T == S \ {NullText}
    IN  IF T = {} THEN NullText
        ELSE CHOOSE x \in T : \A y \in T : CollationRank(y) <= CollationRank(x)

\* SUM(price) over rows, for AVG(price)
RECURSIVE SumPrice(_)
SumPrice(rows) ==
    IF rows = {} THEN 0
    ELSE LET r == CHOOSE x \in rows : TRUE
         IN  r.price + SumPrice(rows \ {r})

\* the rows the view reads with the price test left out
HistoryRowsAnyPrice(table, t) ==
    {ViewRow(table, i) : i \in {j \in DOMAIN table :
        table[j].scraped_at >= t - RETENTION_DAYS}}

\* FROM products WHERE price IS NOT NULL
\*   AND scraped_at >= TIMESTAMP_SUB(CURRENT_TIMESTAMP(), INTERVAL 90 DAY)
HistoryRows(table, t) ==
    {ViewRow(table, i) : i \in {j \in DOMAIN table :
        /\ table[j].price # NULL
        /\ table[j].scraped_at >= t - RETENTION_DAYS}}

\* GROUP BY product_id, DATE(scraped_at), site
HistoryGroups(table, t) ==
    {<<r.product_id, Date(r), r.site>> : r \in HistoryRows(table, t)}

HistoryGroupRows(table, t, g) ==
    {r \in HistoryRows(table, t) :
        r.product_id = g[1] /\ Date(r) = g[2] /\ r.site = g[3]}

\* the SELECT list; AVG(price) is kept as <<SUM(price), COUNT(price)>>
HistoryPoint(table, t, g) ==
    LET rows == HistoryGroupRows(table, t, g)
    IN  [product_id |-> g[1],
         date |-> g[2],
         site |-> g[3],
         avg_price |-> <<SumPrice(rows), Cardinality(rows)>>,
         min_price |-> Min({r.price : r \in rows}),
         max_price |-> Max({r.price : r \in rows}),
         currency |-> MaxText({r.currency : r \in rows}),
         data_points |-> Cardinality(rows)]

PriceHistoryAggregated(table, t) ==
    {HistoryPoint(table, t, g) : g \in HistoryGroups(table, t)}

\* the request answered without looking at days
GetPriceHistoryAnyAge(view, productId, days, t) ==
    [status |-> "ok", product_id |-> productId, days |-> days,
     rows |-> {pt \in view : pt.product_id = productId}]

\* the request with days outside the range cut down to the range
GetPriceHistoryClamped(view, productId, days, t) ==
    LET d == IF days > RETENTION_DAYS THEN RETENTION_DAYS
             ELSE IF days < 1 THEN 1 ELSE days
    IN  [status |-> "ok", product_id |-> productId, days |-> days,
         rows |-> {pt \in view : pt.product_id = productId /\ pt.date >= t - d}]

\* GetPriceHistory(product_id, days): days outside 1..90 fails with
\* OutOfRange; otherwise the points of the product dated within the last days
GetPriceHistory(view, productId, days, t) ==
    IF days < 1 \/ days > RETENTION_DAYS
    THEN [status |-> "OutOfRange", product_id |-> productId, days |-> days,
          rows |-> {}]
    ELSE [status |-> "ok", product_id |-> productId, days |-> days,
          rows |-> {pt \in view : pt.product_id = productId /\ pt.date >= t - days}]

\* api.getPriceHistory(productId, days): a request in range reads the view
getPriceHistory(productId, days) ==
    LET view == PriceHistoryAggregated(products, now)
        response == GetPriceHistory(view, productId, days, now)
    IN  /\ price_history' = response
        /\ price_history_aggregated' =
               IF response.status = "ok" THEN [status |-> "ok", rows |-> view]
               ELSE price_history_aggregated
        /\ UNCHANGED <<pageVars, products, now, latest_prices, arbitrage, minMargin,
                       minPriceDiff, product_brands>>

-----------------------------------------------------------------------------
(* Price-history requests over a loaded table *)

\* the clock of the loaded tables: one day past the retention window, counted
\* from day 0
NowLoaded == RETENTION_DAYS + 1

\* the days a caller may ask for: below the range, the page's, the ceiling,
\* above the ceiling
RequestedDays == {0, HISTORY_DAYS, RETENTION_DAYS, RETENTION_DAYS + 1}

AbsentObservation == [price |-> NULL, currency |-> "-"]

Observed(prices, currencies) ==
    {AbsentObservation} \cup [price : prices, currency : currencies]

\* the table of the observations f[i] of the cells
\* <<product_id, site, scraped_at, time_of_day>>
HistoryTableOf(cells, f) ==
    LET all == [i \in DOMAIN cells |->
                   [product_id |-> cells[i][1], site |-> cells[i][2],
                    scraped_at |-> cells[i][3], time_of_day |-> cells[i][4],
                    price |-> f[i].price, currency |-> f[i].currency]]
    IN  SelectSeq(all, LAMBDA r : r.currency # AbsentObservation.currency)

\* P1 at amazon on the day before the 90-day window, on its first day, on the
\* day before the last 30 days, and twice today; P1 at walmart today; P2 at
\* amazon today
HistoryCells ==
    <<<<"P1", "amazon", 0, 0>>,
      <<"P1", "amazon", NowLoaded - RETENTION_DAYS, 0>>,
      <<"P1", "amazon", NowLoaded - HISTORY_DAYS - 1, 0>>,
      <<"P1", "amazon", NowLoaded, 0>>,
      <<"P1", "amazon", NowLoaded, 1>>,
      <<"P1", "walmart", NowLoaded, 0>>,
      <<"P2", "amazon", NowLoaded, 0>>>>

HistoryTables ==
    LET Old == {AbsentObservation, [price |-> 80, currency |-> "USD"]}
        Unpriced == {[price |-> NULL, currency |-> "USD"]}
        Today == Observed({NULL, 80, 100}, {NullText, "CAD", "USD"})
        Other == {AbsentObservation, [price |-> 100, currency |-> "USD"]}
    IN  {HistoryTableOf(HistoryCells, <<o1, o2, o3, o4, o5, o6, o7>>) :
            o1 \in Old, o2 \in Old, o3 \in Old \cup Unpriced,
            o4 \in Today, o5 \in Today, o6 \in Other, o7 \in Old}

InitHistory ==
    /\ products \in HistoryTables
    /\ now = NowLoaded
    /\ latest_prices = NotQueried
    /\ arbitrage = ArbNotQueried
    /\ minMargin = DEFAULT_MIN_MARGIN
    /\ minPriceDiff = DEFAULT_MIN_PRICE_DIFF
    /\ price_history_aggregated = NotQueried
    /\ price_history = HistoryNotRequested
    /\ product_brands = ArbNotQueried
    /\ PagesInit

NextHistory == \E p \in ProductIds, d \in RequestedDays : getPriceHistory(p, d)

SpecHistory == InitHistory /\ [][NextHistory]_vars

-----------------------------------------------------------------------------
(* The view product_brands *)

\* FROM latest_prices WHERE brand IS NOT NULL AND brand != ''
BrandRows(latest) == {r \in latest : r.brand # NullText /\ r.brand # ""}

\* GROUP BY brand
BrandGroups(latest) == {r.brand : r \in BrandRows(latest)}

BrandGroupRows(latest, b) == {r \in BrandRows(latest) : r.brand = b}

\* AVG(price) of a group without a price: NULL
NullAverage == <<0, 0>>

\* the statistics with every row of the group counted as a product
BrandStatisticsCountRows(latest, b) ==
    LET rows == BrandGroupRows(latest, b)
        priced == {r \in rows : r.price # NULL}
    IN  [brand |-> b,
         product_count |-> Cardinality(rows),
         retailer_count |-> Cardinality({r.site : r \in rows}),
         avg_price |-> IF priced = {} THEN NullAverage
                       ELSE <<SumPrice(priced), Cardinality(priced)>>,
         min_price |-> IF priced = {} THEN NULL ELSE Min({r.price : r \in priced}),
         max_price |-> IF priced = {} THEN NULL ELSE Max({r.price : r \in priced})]

\* the SELECT list: COUNT(DISTINCT product_id), COUNT(DISTINCT site), and
\* AVG, MIN, MAX over the prices that are not NULL
BrandStatistics(latest, b) ==
    LET rows == BrandGroupRows(latest, b)
        priced == {r \in rows : r.price # NULL}
    IN  [brand |-> b,
         product_count |-> Cardinality({r.product_id : r \in rows}),
         retailer_count |-> Cardinality({r.site : r \in rows}),
         avg_price |-> IF priced = {} THEN NullAverage
                       ELSE <<SumPrice(priced), Cardinality(priced)>>,
         min_price |-> IF priced = {} THEN NULL ELSE Min({r.price : r \in priced}),
         max_price |-> IF priced = {} THEN NULL ELSE Max({r.price : r \in priced})]

\* ORDER BY product_count DESC, and nothing else
OrderedByProductCount(s) ==
    \A i, j \in DOMAIN s : i < j => s[i].product_count >= s[j].product_count

\* every sequence of rows the view may yield over a result of latest_prices
ProductBrandsOutcomes(latest) ==
    LET stats == {BrandStatistics(latest, b) : b \in BrandGroups(latest)}
        n == Cardinality(stats)
    IN  {s \in [1..n -> stats] :
            /\ \A i, j \in 1..n : i # j => s[i].brand # s[j].brand
            /\ OrderedByProductCount(s)}

\* api.getBrands().then(setBrands)
getBrands ==
    /\ \E lp \in LatestPricesOutcomes(products, now) :
           /\ latest_prices' = lp
           /\ arbitrage' = IF lp = latest_prices THEN arbitrage ELSE ArbNotQueried
           /\ \E out \in ProductBrandsOutcomes(lp.rows) :
                  product_brands' = [status |-> "ok", rows |-> out]
    /\ UNCHANGED <<pageVars, products, now, minMargin, minPriceDiff,
                   price_history_aggregated, price_history>>

-----------------------------------------------------------------------------
(* All four views over a loaded table *)

AbsentProduct == [price |-> NULL, brand |-> "-"]

Branded(prices, brands) == {AbsentProduct} \cup [price : prices, brand : brands]

\* the table of the products f[i] of the cells <<product_id, site, scraped_at>>
BrandTableOf(cells, f) ==
    LET all == [i \in DOMAIN cells |->
                   [product_id |-> cells[i][1], site |-> cells[i][2],
                    scraped_at |-> cells[i][3], title |-> "A",
                    price |-> f[i].price, currency |-> "USD",
                    brand |-> f[i].brand]]
    IN  SelectSeq(all, LAMBDA r : r.brand # AbsentProduct.brand)

\* P1 at amazon 31 days ago and today, P1 at walmart today, P2 at amazon
\* today, P2 at walmart 31 days ago, P2 at kohls 30 days ago
BrandCells ==
    <<<<"P1", "amazon", NowLoaded - W_LATEST_DAYS - 1>>,
      <<"P1", "amazon", NowLoaded>>,
      <<"P1", "walmart", NowLoaded>>,
      <<"P2", "amazon", NowLoaded>>,
      <<"P2", "walmart", NowLoaded - W_LATEST_DAYS - 1>>,
      <<"P2", "kohls", NowLoaded - W_LATEST_DAYS>>>>

BrandTables ==
    LET Names == {NullText, "", "Acme", "Bolt"}
    IN  {BrandTableOf(BrandCells, <<o1, o2, o3, o4, o5, o6>>) :
            o1 \in Branded({120}, {"Bolt"}),
            o2 \in Branded({80, 100}, Names),
            o3 \in Branded({NULL, 100}, Names),
            o4 \in Branded({80}, Names),
            o5 \in Branded({100}, {"Acme", "Bolt"}),
            o6 \in Branded({100}, {"Acme"})}

InitViews ==
    /\ products \in BrandTables
    /\ now = NowLoaded
    /\ latest_prices = NotQueried
    /\ arbitrage = ArbNotQueried
    /\ minMargin = DEFAULT_MIN_MARGIN
    /\ minPriceDiff = DEFAULT_MIN_PRICE_DIFF
    /\ price_history_aggregated = NotQueried
    /\ price_history = HistoryNotRequested
    /\ product_brands = ArbNotQueried
    /\ PagesInit

NextViews ==
    \/ getArbitrageOpportunities
    \/ getBrands
    \/ \E p \in ProductIds : getPriceHistory(p, RETENTION_DAYS)

SpecViews == InitViews /\ [][NextViews]_vars

-----------------------------------------------------------------------------
(* Properties of the arbitrage page: limit, thresholds *)

\* the products the detector is to return for the page's thresholds
QualifyingProducts == {p \in ProductIds : PricedRows(p) # {} /\ Qualifies(p)}

\* C11: the arbitrage query returns exactly min(limit, number of qualifying
\* products) opportunities, each of a qualifying product; the page asks with
\* the limit 50.
ArbitrageLimitCount ==
    arbitrage.status = "ok" =>
        /\ Len(arbitrage.rows) = Min({PAGE_LIMIT, Cardinality(QualifyingProducts)})
        /\ \A i \in DOMAIN arbitrage.rows :
               arbitrage.rows[i].product_id \in QualifyingProducts

\* the <<product_id, title>> groups of a result
ResultGroups(rows) == {<<rows[i].product_id, rows[i].title>> : i \in DOMAIN rows}

\* the margins the page can send
MarginValues == {ParseFloatOrZero(text) : text \in TypedValues}

\* C12: over the same latest-price rows and with the same minimum price
\* difference, the result for the page's minimum margin is contained in every
\* result for a lower minimum margin and is never longer.
ArbitrageMarginMonotone ==
    arbitrage.status = "ok" =>
        \A m \in MarginValues :
            m <= minMargin =>
                \A s \in price_comparison(latest_prices.rows, m, minPriceDiff) :
                    /\ ResultGroups(arbitrage.rows) \subseteq ResultGroups(s)
                    /\ Len(arbitrage.rows) <= Len(s)

\* the result for the page's margin is non-empty and a lower margin gives
\* strictly more
ArbitrageMarginMonotoneWitness ==
    /\ arbitrage.status = "ok"
    /\ arbitrage.rows # <<>>
    /\ \E m \in MarginValues :
           /\ m < minMargin
           /\ \E s \in price_comparison(latest_prices.rows, m, minPriceDiff) :
                  Len(s) > Len(arbitrage.rows)

\* C13: the thresholds handed to the arbitrage query are never negative,
\* whatever was typed into the two inputs.
ArbitrageThresholdsNonNegative ==
    arbitrage.status # "none" => (minMargin >= 0 /\ minPriceDiff >= 0)

-----------------------------------------------------------------------------
(* Properties of the price history, stated over the table it was read from *)

\* the days on which the table holds an observation
ObservedDates == {products[i].scraped_at : i \in DOMAIN products}

\* the observations of a product at a site on a day that carry a price and lie
\* inside the 90-day window
BucketObservations(p, s, d) ==
    {i \in DOMAIN products :
        /\ products[i].product_id = p
        /\ products[i].site = s
        /\ products[i].scraped_at = d
        /\ products[i].price # NULL
        /\ products[i].scraped_at >= now - RETENTION_DAYS}

BucketPoints(p, s, d) ==
    {pt \in price_history_aggregated.rows :
        pt.product_id = p /\ pt.site = s /\ pt.date = d}

RECURSIVE PriceSum(_)
PriceSum(S) ==
    IF S = {} THEN 0
    ELSE LET i == CHOOSE x \in S : TRUE
         IN  products[i].price + PriceSum(S \ {i})

\* C14: the price history holds exactly one point for each (product_id, site,
\* day) with a priced observation in the window, with the average, minimum,
\* maximum and count of the bucket's prices, and no point for any other bucket.
HistoryOnePointPerBucket ==
    price_history_aggregated.status = "ok" =>
        /\ \A pt \in price_history_aggregated.rows :
               BucketObservations(pt.product_id, pt.site, pt.date) # {}
        /\ \A p \in ProductIds, s \in Sites, d \in ObservedDates :
               LET obs == BucketObservations(p, s, d)
                   prices == {products[i].price : i \in obs}
               IN  obs # {} =>
                       /\ Cardinality(BucketPoints(p, s, d)) = 1
                       /\ \A pt \in BucketPoints(p, s, d) :
                              /\ pt.data_points = Cardinality(obs)
                              /\ pt.min_price = Min(prices)
                              /\ pt.max_price = Max(prices)
                              /\ pt.avg_price = <<PriceSum(obs), Cardinality(obs)>>

\* a bucket of two different prices, a day whose only observation has no
\* price and gets no point, and a priced observation older than the window
HistoryOnePointPerBucketWitness ==
    /\ price_history_aggregated.status = "ok"
    /\ \E pt \in price_history_aggregated.rows :
           pt.data_points = 2 /\ pt.min_price < pt.max_price
    /\ \E i \in DOMAIN products :
           /\ products[i].price = NULL
           /\ products[i].scraped_at >= now - RETENTION_DAYS
           /\ BucketPoints(products[i].product_id, products[i].site,
                           products[i].scraped_at) = {}
    /\ \E i \in DOMAIN products :
           /\ products[i].price # NULL
           /\ products[i].scraped_at < now - RETENTION_DAYS

\* the priced observations of a point's bucket that carry a currency
CurrencyObservations(pt) ==
    {i \in BucketObservations(pt.product_id, pt.site, pt.date) :
        products[i].currency # NullText}

\* C15: the currency of a history point is that of the last observation of its
\* bucket, in scraped_at order, that has a currency.
HistoryCurrencyIsLast ==
    price_history_aggregated.status = "ok" =>
        \A pt \in price_history_aggregated.rows :
            LET obs == CurrencyObservations(pt)
            IN  IF obs = {} THEN pt.currency = NullText
                ELSE \E i \in obs :
                         /\ \A j \in obs :
                                products[j].time_of_day <= products[i].time_of_day
                         /\ pt.currency = products[i].currency

\* C16: a price-history request with days = d returns no point dated more
\* than d days before now, also when the table holds priced observations aged
\* between d and 90 days.
HistoryWithinDays ==
    price_history.status = "ok" =>
        \A pt \in price_history.rows : pt.date >= now - price_history.days

\* the page's request of 30 days is answered with points while the view holds
\* an older point of the same product
HistoryWithinDaysWitness ==
    /\ price_history.status = "ok"
    /\ price_history.days = HISTORY_DAYS
    /\ price_history.rows # {}
    /\ \E pt \in price_history_aggregated.rows :
           /\ pt.product_id = price_history.product_id
           /\ pt.date < now - HISTORY_DAYS
           /\ pt \notin price_history.rows

\* C17: a price-history request with days above 90 or below 1 fails with
\* OutOfRange and returns no points; it is not answered as if days were 90.
HistoryOutOfRange ==
    (price_history.status # "none"
        /\ (price_history.days > RETENTION_DAYS \/ price_history.days < 1)) =>
            (price_history.status = "OutOfRange" /\ price_history.rows = {})

\* a request of 91 days for a product with priced observations inside the
\* 90-day window is refused
HistoryOutOfRangeWitness ==
    /\ price_history.status = "OutOfRange"
    /\ price_history.days > RETENTION_DAYS
    /\ \E s \in Sites, d \in ObservedDates :
           BucketObservations(price_history.product_id, s, d) # {}

-----------------------------------------------------------------------------
(* Properties that relate the views to the age of the observations *)

\* older than the recency window of 30 days, inside the 90 days of the history
Aged(row) ==
    /\ row.scraped_at < now - W_LATEST_DAYS
    /\ row.scraped_at >= now - RETENTION_DAYS

AgedObservations == {i \in DOMAIN products : Aged(products[i])}

\* the table with the aged observations taken out
WithoutAged == SelectSeq(products, LAMBDA row : ~Aged(row))

\* C18: an observation older than 30 days and within 90 days is no
\* latest-price row, and the arbitrage and brand-statistics results are those
\* of the table without it, while, if it carries a price, the price history
\* holds the point of its bucket, counts it there, and differs from the
\* history of the table without it.
AgedOnlyInHistory ==
    /\ latest_prices.status = "ok" =>
           \A r \in latest_prices.rows : r.seq \notin AgedObservations
    /\ arbitrage.status # "none" =>
           \E lp \in LatestPricesOutcomes(WithoutAged, now) :
               arbitrage \in ArbitrageOutcomes(lp.rows, minMargin, minPriceDiff,
                                               PAGE_LIMIT)
    /\ product_brands.status = "ok" =>
           \E lp \in LatestPricesOutcomes(WithoutAged, now) :
               product_brands.rows \in ProductBrandsOutcomes(lp.rows)
    /\ price_history_aggregated.status = "ok" =>
           \A i \in AgedObservations :
               products[i].price # NULL =>
                   /\ \E pt \in BucketPoints(products[i].product_id, products[i].site,
                                             products[i].scraped_at) :
                          pt.data_points >= 1 /\ pt.min_price <= products[i].price
                   /\ price_history_aggregated.rows
                          # PriceHistoryAggregated(WithoutAged, now)

\* all views have been read over a table with a priced observation aged 31
\* days, whose product has other retailers in the latest prices and whose
\* brand has statistics
AgedOnlyInHistoryWitness ==
    /\ arbitrage.status = "ok"
    /\ product_brands.status = "ok"
    /\ price_history_aggregated.status = "ok"
    /\ \E i \in AgedObservations :
           /\ products[i].price # NULL
           /\ ObservationsInWindow(products[i].product_id, products[i].site) = {}
           /\ \E r \in latest_prices.rows :
                  r.product_id = products[i].product_id /\ r.price # NULL
           /\ \E k \in DOMAIN product_brands.rows :
                  product_brands.rows[k].brand = products[i].brand

-----------------------------------------------------------------------------
(* Properties of the brand statistics, stated over the latest-price rows *)

BrandNames == {"Acme", "Bolt"}

\* the latest-price rows of a brand
LatestOfBrand(b) == {r \in latest_prices.rows : r.brand = b}

StatisticsOfBrand(b) ==
    {k \in DOMAIN product_brands.rows : product_brands.rows[k].brand = b}

\* C19: the brand statistics hold one row for each brand, other than null and
\* the empty string, of the latest-price rows, with the numbers of distinct
\* products and retailers of the brand's rows and the average, minimum and
\* maximum of their prices, and no row for any other brand.
BrandStatisticsPerBrand ==
    product_brands.status = "ok" =>
        /\ \A k \in DOMAIN product_brands.rows :
               product_brands.rows[k].brand \in BrandNames
        /\ \A b \in BrandNames :
               LET rows == LatestOfBrand(b)
                   priced == {r \in rows : r.price # NULL}
               IN  /\ Cardinality(StatisticsOfBrand(b)) = IF rows = {} THEN 0 ELSE 1
                   /\ \A k \in StatisticsOfBrand(b) :
                          LET o == product_brands.rows[k]
                          IN  /\ o.product_count = Cardinality({r.product_id : r \in rows})
                              /\ o.retailer_count = Cardinality({r.site : r \in rows})
                              /\ priced # {} =>
                                     /\ o.avg_price = <<PriceSum({r.seq : r \in priced}),
                                                        Cardinality(priced)>>
                                     /\ o.min_price = Min({r.price : r \in priced})
                                     /\ o.max_price = Max({r.price : r \in priced})
                              /\ priced = {} =>
                                     (o.min_price = NULL /\ o.max_price = NULL)

\* Acme has three latest-price rows over two products and two retailers and is
\* counted with 2 and 2, next to a row without a brand
BrandStatisticsPerBrandWitness ==
    /\ product_brands.status = "ok"
    /\ Cardinality(LatestOfBrand("Acme")) = 3
    /\ \E k \in StatisticsOfBrand("Acme") :
           /\ product_brands.rows[k].product_count = 2
           /\ product_brands.rows[k].retailer_count = 2
    /\ \E r \in latest_prices.rows : r.brand \in {NullText, ""}

\* C20: the brand statistics are ordered by product_count descending, then
\* by brand name ascending.
BrandStatisticsTotalOrder ==
    product_brands.status = "ok" =>
        \A i, j \in DOMAIN product_brands.rows :
            i < j =>
                LET a == product_brands.rows[i]
                    b == product_brands.rows[j]
                IN  \/ a.product_count > b.product_count
                    \/ /\ a.product_count = b.product_count
                       /\ CollationRank(a.brand) < CollationRank(b.brand)

-----------------------------------------------------------------------------
(* The compare page (CompareContent) *)
(* A product id is a text, kept as the sequence of its characters.          *)

\* the longest product_ids parameter looked at
MaxParamLen == 4

ParamChars == {"A", "B", ","}

\* searchParams.get('product_ids'): null when the parameter is absent
ProductIdsParams ==
    {[present |-> FALSE, text |-> <<>>]} \cup
    {[present |-> TRUE, text |-> t] :
        t \in UNION {[1..n -> ParamChars] : n \in 0..MaxParamLen}}

\* text.split(sep)
RECURSIVE Split(_, _)
Split(text, sep) ==
    IF \A i \in DOMAIN text : text[i] # sep
    THEN <<text>>
    ELSE LET k == Min({i \in DOMAIN text : text[i] = sep})
         IN  <<SubSeq(text, 1, k - 1)>> \o Split(SubSeq(text, k + 1, Len(text)), sep)

\* prev.includes(productId)
Includes(prev, productId) == \E i \in DOMAIN prev : prev[i] = productId

\* the updater with the removal left out: the id is added in any case
ToggleAlwaysAdds(prev, productId) == Append(prev, productId)

\* prev.includes(productId) ? prev.filter((id) => id !== productId)
\*                          : [...prev, productId]
Toggle(prev, productId) ==
    IF Includes(prev, productId)
    THEN SelectSeq(prev, LAMBDA id : id # productId)
    ELSE Append(prev, productId)

\* useEffect on searchParams: if (productIds) setSelectedProducts(productIds.split(','))
\* an absent parameter and the empty text are falsy
useEffectSearchParams(param) ==
    /\ param.present /\ param.text # <<>>
    /\ selectedProducts' = Split(param.text, ",")
    /\ comparison' = CompareNotRequested
    /\ UNCHANGED <<engineVars, facadeVars, productPageVars, searchPageVars>>

\* the ids a Select or a selected product's button hands to handleProductSelect
CompareIds == {<<"A">>, <<"B">>}

handleProductSelect(productId) ==
    /\ selectedProducts' = Toggle(selectedProducts, productId)
    /\ comparison' = CompareNotRequested
    /\ UNCHANGED <<engineVars, facadeVars, productPageVars, searchPageVars>>

\* Clear All: setSelectedProducts([]); the button is rendered with a selection
ClearAll ==
    /\ Len(selectedProducts) # 0
    /\ selectedProducts' = <<>>
    /\ comparison' = CompareNotRequested
    /\ UNCHANGED <<engineVars, facadeVars, productPageVars, searchPageVars>>

\* useQuery: queryFn api.compareProducts(selectedProducts),
\* enabled: selectedProducts.length > 0
compareProducts ==
    /\ Len(selectedProducts) > 0
    /\ comparison' = [status |-> "requested", product_ids |-> selectedProducts]
    /\ UNCHANGED <<engineVars, facadeVars, productPageVars, searchPageVars, selectedProducts>>

InitCompare ==
    /\ products = <<>>
    /\ now = W_LATEST_DAYS
    /\ latest_prices = NotQueried
    /\ arbitrage = ArbNotQueried
    /\ minMargin = DEFAULT_MIN_MARGIN
    /\ minPriceDiff = DEFAULT_MIN_PRICE_DIFF
    /\ price_history_aggregated = NotQueried
    /\ price_history = HistoryNotRequested
    /\ product_brands = ArbNotQueried
    /\ PagesInit

NextCompare ==
    \/ \E param \in ProductIdsParams : useEffectSearchParams(param)
    \/ \E productId \in CompareIds : handleProductSelect(productId)
    \/ ClearAll
    \/ compareProducts

SpecCompare == InitCompare /\ [][NextCompare]_vars

-----------------------------------------------------------------------------
(* Properties of the compare page *)

NoDuplicates(s) == \A i, j \in DOMAIN s : s[i] = s[j] => i = j

Ids(s) == {s[i] : i \in DOMAIN s}

\* C27: a comparison is requested only with a collection of product ids that
\* is not empty, holds no id twice and holds no empty id.
CompareRequestWellFormed ==
    comparison.status = "requested" =>
        /\ comparison.product_ids # <<>>
        /\ NoDuplicates(comparison.product_ids)
        /\ \A i \in DOMAIN comparison.product_ids : comparison.product_ids[i] # <<>>

\* C28: from a selection without duplicates, handleProductSelect of an absent
\* id appends it, of a present id removes it, leaves every other id as it
\* was, and a second select of the same id gives back the original set of ids.
HandleProductSelectToggles ==
    [][\A productId \in CompareIds :
          (handleProductSelect(productId) /\ NoDuplicates(selectedProducts)) =>
              /\ ~Includes(selectedProducts, productId) =>
                     selectedProducts' = selectedProducts \o <<productId>>
              /\ Includes(selectedProducts, productId) =>
                     /\ ~Includes(selectedProducts', productId)
                     /\ Len(selectedProducts') = Len(selectedProducts) - 1
              /\ Ids(selectedProducts') \ {productId} = Ids(selectedProducts) \ {productId}
              /\ NoDuplicates(selectedProducts')
              /\ Ids(Toggle(selectedProducts', productId)) = Ids(selectedProducts)]_vars

\* a selection of two different ids, as left by selects
HandleProductSelectTogglesWitness ==
    /\ selectedProducts = <<<<"B">>, <<"A">>>>
    /\ comparison.status = "none"

-----------------------------------------------------------------------------
(* The product page (ProductDetailPage) *)

\* the answer of the product lookup that succeeds: the product when the table
\* holds an observation of it, no product otherwise
GetProduct(table, id) ==
    IF \E i \in DOMAIN table : table[i].product_id = id
    THEN [product_id |-> id]
    ELSE NoProduct

\* isLoading of useQuery: the first fetch is under way
IsLoading(query) == query.status = "loading"

\* what the page shows: the spinner if (productLoading), "Product not found"
\* if (!product), the product otherwise
Rendered(query) ==
    IF IsLoading(query) THEN "LoadingSpinner"
    ELSE IF query.data = NoProduct THEN "Product not found"
    ELSE "product"

\* queryFn api.getProduct(resolvedParams.id) resolves
getProductResolves ==
    /\ productQuery' = [status |-> "success",
                        data |-> GetProduct(products, resolvedParams.id)]
    /\ UNCHANGED <<engineVars, facadeVars, comparePageVars, searchPageVars, resolvedParams>>

\* queryFn api.getProduct(resolvedParams.id) rejects: the store or the API could not
\* be read; useQuery keeps the data it had
getProductRejects ==
    /\ productQuery' = [status |-> "error", data |-> productQuery.data]
    /\ UNCHANGED <<engineVars, facadeVars, comparePageVars, searchPageVars, resolvedParams>>

\* one product over three days, with or without a price
ProductPageTables ==
    LET Today == Observed({NULL, 80, 100}, {NullText, "CAD", "USD"})
        Once == {AbsentObservation, [price |-> 80, currency |-> "USD"]}
    IN  {HistoryTableOf(HistoryCells, <<o, AbsentObservation, o3, o4,
                                        AbsentObservation, AbsentObservation, o7>>) :
            o \in Once, o3 \in Once, o4 \in Today, o7 \in Once}

InitProduct ==
    /\ products \in ProductPageTables
    /\ now = NowLoaded
    /\ latest_prices = NotQueried
    /\ arbitrage = ArbNotQueried
    /\ minMargin = DEFAULT_MIN_MARGIN
    /\ minPriceDiff = DEFAULT_MIN_PRICE_DIFF
    /\ price_history_aggregated = NotQueried
    /\ price_history = HistoryNotRequested
    /\ product_brands = ArbNotQueried
    /\ ComparePageInit
    /\ SearchPageInit
    /\ FacadeInit
    /\ resolvedParams \in [id : ProductIds]
    /\ productQuery = QueryLoading

\* the page's three queries answer in any order; the retailers query is not
\* looked at
NextProduct ==
    \/ getProductResolves
    \/ getProductRejects
    \/ getPriceHistory(resolvedParams.id, HISTORY_DAYS)

SpecProduct == InitProduct /\ [][NextProduct]_vars

\* C25: the product page shows "Product not found" only when the product
\* lookup succeeded without a product, never when it failed.
NotFoundOnlyOnSuccess ==
    Rendered(productQuery) = "Product not found" =>
        (productQuery.status = "success" /\ productQuery.data = NoProduct)

-----------------------------------------------------------------------------
(* The search page (SearchPage) and its filters (SearchFilters) *)

\* the largest meta.total_pages a search answers with
MaxPages == 3

\* what may be typed into the search box and into a price input
TypedQueries == {"", "tv"}
TypedPrices == {"", "5"}

\* the brands api.getBrands() has put under the Brands heading
ListedBrands == {"Acme", "Bolt"}

\* the update with the other fields taken from the initial state
UpdateFilterFromCleared(current, key, value) == [ClearedFilters EXCEPT ![key] = value]

\* const newFilters = { ...filters, [key]: value }
UpdateFilter(current, key, value) == [current EXCEPT ![key] = value]

\* list.includes(x) ? list.filter((y) => y !== x) : [...list, x]
ToggleIn(list, x) ==
    IF \E i \in DOMAIN list : list[i] = x
    THEN SelectSeq(list, LAMBDA y : y # x)
    ELSE Append(list, x)

\* e.target.value ? parseFloat(e.target.value) : null
PriceOrNull(text) == IF text = "" THEN NULL ELSE ParseFloat(text).value

\* updateFilter: setFilters(newFilters); onFilterChange(newFilters), where
\* SearchPage does setFilters(newFilters); setPage(1); the query key changes,
\* so the query has no data until it answers
updateFilter(key, value) ==
    LET newFilters == UpdateFilter(filters, key, value)
    IN  /\ filters' = newFilters
        /\ pageFilters' = newFilters
        /\ page' = 1
        /\ searchData' = SearchLoading
        /\ UNCHANGED <<engineVars, facadeVars, comparePageVars, productPageVars>>

toggleBrand(brand) == updateFilter("brands", ToggleIn(filters.brands, brand))

toggleRetailer(retailer) == updateFilter("retailers", ToggleIn(filters.retailers, retailer))

\* Clear Filters: setFilters(cleared); onFilterChange(cleared)
ClearFilters ==
    /\ filters' = ClearedFilters
    /\ pageFilters' = ClearedFilters
    /\ page' = 1
    /\ searchData' = SearchLoading
    /\ UNCHANGED <<engineVars, facadeVars, comparePageVars, productPageVars>>

\* the pagination is rendered: data && data.data.length > 0 and
\* data.meta.total_pages > 1
PaginationShown ==
    /\ searchData.status = "success"
    /\ ~searchData.empty
    /\ searchData.total_pages > 1

\* Previous: setPage((p) => Math.max(1, p - 1)), disabled={page === 1}
Previous ==
    /\ PaginationShown
    /\ page # 1
    /\ page' = Max({1, page - 1})
    /\ searchData' = SearchLoading
    /\ UNCHANGED <<engineVars, facadeVars, comparePageVars, productPageVars, filters, pageFilters>>

\* Next: setPage((p) => Math.min(data.meta.total_pages, p + 1)),
\* disabled={page === data.meta.total_pages}
NextPage ==
    /\ PaginationShown
    /\ page # searchData.total_pages
    /\ page' = Min({searchData.total_pages, page + 1})
    /\ searchData' = SearchLoading
    /\ UNCHANGED <<engineVars, facadeVars, comparePageVars, productPageVars, filters, pageFilters>>

\* api.searchProducts answers the query of the current filters and page, on
\* its first fetch or on a refetch: the matching products fill totalPages pages
\* at that moment, and the page asked for holds products when it is one of them
searchProductsResolves(totalPages) ==
    /\ searchData' = [status |-> "success", total_pages |-> totalPages,
                      empty |-> ~(page <= totalPages)]
    /\ UNCHANGED <<engineVars, facadeVars, comparePageVars, productPageVars, filters,
                   pageFilters, page>>

\* api.searchProducts rejects on the first fetch
searchProductsRejects ==
    /\ searchData.status = "loading"
    /\ searchData' = [status |-> "error", total_pages |-> 0, empty |-> TRUE]
    /\ UNCHANGED <<engineVars, facadeVars, comparePageVars, productPageVars, filters,
                   pageFilters, page>>

InitSearch ==
    /\ products = <<>>
    /\ now = W_LATEST_DAYS
    /\ latest_prices = NotQueried
    /\ arbitrage = ArbNotQueried
    /\ minMargin = DEFAULT_MIN_MARGIN
    /\ minPriceDiff = DEFAULT_MIN_PRICE_DIFF
    /\ price_history_aggregated = NotQueried
    /\ price_history = HistoryNotRequested
    /\ product_brands = ArbNotQueried
    /\ PagesInit

NextSearch ==
    \/ \E text \in TypedQueries : updateFilter("query", text)
    \/ \E text \in TypedPrices : updateFilter("minPrice", PriceOrNull(text))
    \/ \E text \in TypedPrices : updateFilter("maxPrice", PriceOrNull(text))
    \/ \E brand \in ListedBrands : toggleBrand(brand)
    \/ \E retailer \in Sites : toggleRetailer(retailer)
    \/ ClearFilters
    \/ Previous
    \/ NextPage
    \/ \E totalPages \in 0..MaxPages : searchProductsResolves(totalPages)
    \/ searchProductsRejects

SpecSearch == InitSearch /\ [][NextSearch]_vars

-----------------------------------------------------------------------------
(* Properties of the search page *)

\* C29: the page number lies between 1 and the total_pages of the result the
\* search page holds, whenever that result has pages at all.
PageWithinTotalPages ==
    (searchData.status = "success" /\ searchData.total_pages >= 1) =>
        (1 <= page /\ page <= searchData.total_pages)

-----------------------------------------------------------------------------
(* Properties of ingestion and of recomputation *)

\* the key of an observation
ObservationKey(row) == <<row.product_id, row.site, row.scraped_at>>

\* C21: the store holds at most one observation per (product_id, site,
\* scraped_at), whatever was appended.
StoreUniqueKeys ==
    \A i, j \in DOMAIN products :
        ObservationKey(products[i]) = ObservationKey(products[j]) => i = j

\* the columns of the rows of a view result, without the position in the table
Columns(rows) == {[c \in DOMAIN r \ {"seq"} |-> r[c]] : r \in rows}

\* the table with its last two appends made in the other order
LastTwoSwapped ==
    LET n == Len(products)
    IN  [i \in 1..n |-> IF i = n THEN products[n - 1]
                        ELSE IF i = n - 1 THEN products[n]
                        ELSE products[i]]

\* C22: appends commute: the latest prices read after two appends are those
\* read after the same two appends made in the other order.
AppendsCommute ==
    (latest_prices.status = "ok" /\ Len(products) >= 2) =>
        \A lp \in LatestPricesOutcomes(LastTwoSwapped, now) :
            Columns(lp.rows) = Columns(latest_prices.rows)

\* C23: reading the latest prices again over the unchanged table at the same
\* time gives the result read before, also among observations with equal
\* scraped_at.
RecomputationIdentical ==
    latest_prices.status = "ok" =>
        \A lp \in LatestPricesOutcomes(products, now) :
            Columns(lp.rows) = Columns(latest_prices.rows)

-----------------------------------------------------------------------------
(* Properties of the search filters, stated over their steps *)

\* every field but one is left as it was
OthersUnchanged(key) == \A k \in DOMAIN filters \ {key} : filters'[k] = filters[k]

Elements(list) == {list[i] : i \in DOMAIN list}

\* a toggle changes the membership of x and of nothing else, without
\* duplicates
Toggled(before, after, x) ==
    /\ (x \in Elements(after)) = (x \notin Elements(before))
    /\ Elements(after) \ {x} = Elements(before) \ {x}
    /\ Len(after) = Cardinality(Elements(after))

\* what a step of each filter action does: SearchPage receives the
\* component's new state, which differs from the previous one in the field
\* acted on only; Clear Filters empties all five fields
FilterActionFrame ==
    /\ \A text \in TypedQueries :
           updateFilter("query", text) =>
               /\ filters'.query = text
               /\ OthersUnchanged("query")
               /\ pageFilters' = filters'
    /\ \A text \in TypedPrices :
           updateFilter("minPrice", PriceOrNull(text)) =>
               /\ filters'.minPrice = IF text = "" THEN NULL ELSE 5
               /\ OthersUnchanged("minPrice")
               /\ pageFilters' = filters'
    /\ \A text \in TypedPrices :
           updateFilter("maxPrice", PriceOrNull(text)) =>
               /\ filters'.maxPrice = IF text = "" THEN NULL ELSE 5
               /\ OthersUnchanged("maxPrice")
               /\ pageFilters' = filters'
    /\ \A brand \in ListedBrands :
           toggleBrand(brand) =>
               /\ Toggled(filters.brands, filters'.brands, brand)
               /\ OthersUnchanged("brands")
               /\ pageFilters' = filters'
    /\ \A retailer \in Sites :
           toggleRetailer(retailer) =>
               /\ Toggled(filters.retailers, filters'.retailers, retailer)
               /\ OthersUnchanged("retailers")
               /\ pageFilters' = filters'
    /\ ClearFilters =>
           /\ filters'.query = "" /\ filters'.brands = <<>> /\ filters'.retailers = <<>>
           /\ filters'.minPrice = NULL /\ filters'.maxPrice = NULL
           /\ pageFilters' = filters'

\* a second toggle of the same brand or retailer gives back the list as it was
SecondToggleRestoresList ==
    /\ \A brand \in ListedBrands :
           toggleBrand(brand) => ToggleIn(filters'.brands, brand) = filters.brands
    /\ \A retailer \in Sites :
           toggleRetailer(retailer) =>
               ToggleIn(filters'.retailers, retailer) = filters.retailers

\* x is not in the list or is its last element
AbsentOrLast(list, x) == x \notin Elements(list) \/ list[Len(list)] = x

\* a second toggle of the same brand or retailer gives back the elements of
\* the list as it was, and the list itself exactly when the value was absent
\* or last
SecondToggleRestoresElements ==
    /\ \A brand \in ListedBrands :
           toggleBrand(brand) =>
               /\ Elements(ToggleIn(filters'.brands, brand)) = Elements(filters.brands)
               /\ (ToggleIn(filters'.brands, brand) = filters.brands)
                      = AbsentOrLast(filters.brands, brand)
    /\ \A retailer \in Sites :
           toggleRetailer(retailer) =>
               /\ Elements(ToggleIn(filters'.retailers, retailer))
                      = Elements(filters.retailers)
               /\ (ToggleIn(filters'.retailers, retailer) = filters.retailers)
                      = AbsentOrLast(filters.retailers, retailer)

\* C30 as claimed: every filter action hands SearchPage the component's new
\* state, changes the field acted on only (Clear Filters empties all), and
\* toggling the same brand or retailer twice restores the previous list.
FilterActionsRestoreList == [][FilterActionFrame /\ SecondToggleRestoresList]_vars

\* C30: every filter action hands SearchPage the component's new state,
\* changes the field acted on only (Clear Filters empties all), and toggling
\* the same brand or retailer twice restores the elements of the previous
\* list, though not always their order.
FilterActionsRestoreElements == [][FilterActionFrame /\ SecondToggleRestoresElements]_vars

\* the brands were Acme, Bolt; Acme was toggled twice and now follows Bolt,
\* next to a query, a retailer and a price that stayed as they were
FilterActionsRestoreElementsWitness ==
    /\ filters.brands = <<"Bolt", "Acme">>
    /\ filters.query = "tv"
    /\ filters.retailers = <<"amazon">>
    /\ filters.minPrice = 5
    /\ pageFilters = filters

-----------------------------------------------------------------------------
(* Retention pruning of the table *)

\* the table cut down to the recency window, its boundary day dropped too
PrunedTableToRecent(table, t) ==
    SelectSeq(table, LAMBDA row : row.scraped_at > t - W_LATEST_DAYS)

\* the observations retention keeps: those not older than the longer of the
\* retention window and the recency window
PrunedTable(table, t) ==
    SelectSeq(table, LAMBDA row :
        row.scraped_at >= t - Max({RETENTION_DAYS, W_LATEST_DAYS}))

\* a pruning run; the results read before it describe another table
Prune ==
    /\ products' = PrunedTable(products, now)
    /\ latest_prices' = NotQueried
    /\ arbitrage' = ArbNotQueried
    /\ price_history_aggregated' = NotQueried
    /\ price_history' = HistoryNotRequested
    /\ product_brands' = ArbNotQueried
    /\ UNCHANGED <<pageVars, now, minMargin, minPriceDiff>>

\* P1 at amazon 91, 90, 31 and 30 days ago and today, P1 at walmart 91 and
\* 30 days ago, P2 at amazon 91 days ago; the last is in every table, so that
\* every table has something to prune
RetentionCells ==
    <<<<"P1", "amazon", 0, 0>>,
      <<"P1", "amazon", NowLoaded - RETENTION_DAYS, 0>>,
      <<"P1", "amazon", NowLoaded - W_LATEST_DAYS - 1, 0>>,
      <<"P1", "amazon", NowLoaded - W_LATEST_DAYS, 0>>,
      <<"P1", "amazon", NowLoaded, 0>>,
      <<"P1", "walmart", 0, 0>>,
      <<"P1", "walmart", NowLoaded - W_LATEST_DAYS, 0>>,
      <<"P2", "amazon", 0, 0>>>>

RetentionTables ==
    LET Once == {AbsentObservation, [price |-> 80, currency |-> "USD"]}
        Either == Observed({80, 100}, {"USD"})
        Present == [price : {80, 100}, currency : {"USD"}]
    IN  {HistoryTableOf(RetentionCells, <<o1, o2, o3, o4, o5, o6, o7, o8>>) :
            o1 \in Once, o2 \in Once, o3 \in Once, o4 \in Either, o5 \in Once,
            o6 \in Once, o7 \in Once, o8 \in Present}

InitRetention ==
    /\ products \in RetentionTables
    /\ now = NowLoaded
    /\ latest_prices = NotQueried
    /\ arbitrage = ArbNotQueried
    /\ minMargin = DEFAULT_MIN_MARGIN
    /\ minPriceDiff = DEFAULT_MIN_PRICE_DIFF
    /\ price_history_aggregated = NotQueried
    /\ price_history = HistoryNotRequested
    /\ product_brands = ArbNotQueried
    /\ PagesInit

NextRetention ==
    \/ Prune
    \/ QueryLatestPrices

SpecRetention == InitRetention /\ [][NextRetention]_vars

\* the observations of a pair inside the recency window, in a table
InWindowOf(table, p, s) ==
    {i \in DOMAIN table :
        /\ table[i].product_id = p
        /\ table[i].site = s
        /\ table[i].scraped_at >= now - W_LATEST_DAYS}

\* C26: a pruning run leaves every pair that has an observation inside the
\* 30-day window with its newest observation, so that the latest prices
\* readable after the run are those readable before it.
PruneKeepsLatest ==
    [][Prune =>
          /\ \A p \in ProductIds, s \in Sites :
                 LET before == InWindowOf(products, p, s)
                     after == InWindowOf(products', p, s)
                 IN  before # {} =>
                         /\ after # {}
                         /\ Max({products'[i].scraped_at : i \in after})
                                = Max({products[i].scraped_at : i \in before})
          /\ {Columns(lp.rows) : lp \in LatestPricesOutcomes(products', now)}
                 = {Columns(lp.rows) : lp \in LatestPricesOutcomes(products, now)}]_vars

\* the latest prices are read after a pruning run, from a table that holds an
\* observation 30 days old and one 90 days old
PruneKeepsLatestWitness ==
    /\ latest_prices.status = "ok"
    /\ latest_prices.rows # {}
    /\ \E i \in DOMAIN products : products[i].scraped_at = now - W_LATEST_DAYS
    /\ \E i \in DOMAIN products : products[i].scraped_at = now - RETENTION_DAYS
    /\ products \notin RetentionTables

-----------------------------------------------------------------------------
(* The cache of the Query Facade *)

\* how long a cached snapshot is served, in steps of the clock
CACHE_TTL == 2

\* a cache that serves nothing: every read recomputes
IsFreshNever(entry, t) == FALSE

\* a snapshot is served while it is younger than the TTL
IsFresh(entry, t) == entry.status = "ok" /\ t < entry.computed_at + CACHE_TTL

Response(key, entry) ==
    [status |-> "ok", key |-> key, at |-> now, computed_at |-> entry.computed_at,
     value |-> entry.value]

\* a read that finds a fresh snapshot is answered with it
CachedRead(c, key) ==
    /\ IsFresh(cache[key], now)
    /\ served' = [served EXCEPT ![c] = Response(key, cache[key])]
    /\ UNCHANGED <<engineVars, comparePageVars, productPageVars, searchPageVars,
                   cache, building>>

\* a read that finds no fresh snapshot starts the recomputation, unless one
\* is under way; the new snapshot is built aside from the served one
BeginRefresh(c, key) ==
    /\ ~IsFresh(cache[key], now)
    /\ building[key].status = "idle"
    /\ \E lp \in LatestPricesOutcomes(products, now) :
          \E out \in ArbitrageOutcomes(lp.rows, key[2], key[3], key[4]) :
              building' = [building EXCEPT ![key] =
                              [status |-> "building", caller |-> c, value |-> out]]
    /\ UNCHANGED <<engineVars, comparePageVars, productPageVars, searchPageVars,
                   cache, served>>

\* the finished snapshot replaces the served one in one step, and answers the
\* read that waited for it
PublishRefresh(key) ==
    /\ building[key].status = "building"
    /\ LET entry == [status |-> "ok", computed_at |-> now,
                     value |-> building[key].value]
       IN  /\ cache' = [cache EXCEPT ![key] = entry]
           /\ served' = [served EXCEPT ![building[key].caller] = Response(key, entry)]
    /\ building' = [building EXCEPT ![key] = NotBuilding]
    /\ UNCHANGED <<engineVars, comparePageVars, productPageVars, searchPageVars>>

\* the observations of the newest day
CacheRows == {row \in StoreRows : row.scraped_at = MaxDay}

InitCache == Init

NextCache ==
    \/ \E row \in CacheRows : Ingest(row)
    \/ Tick
    \/ \E c \in Callers, key \in CacheKeys : CachedRead(c, key)
    \/ \E c \in Callers, key \in CacheKeys : BeginRefresh(c, key)
    \/ \E key \in CacheKeys : PublishRefresh(key)

SpecCache == InitCache /\ [][NextCache]_vars

\* every response inside the TTL of the snapshot another response carried is
\* that snapshot
SameSnapshotWithinTtl ==
    \A c1 \in Callers, c2 \in Callers :
        (/\ served[c1].status = "ok"
         /\ served[c2].status = "ok"
         /\ served[c1].key = served[c2].key
         /\ served[c1].computed_at <= served[c2].at
         /\ served[c2].at < served[c1].computed_at + CACHE_TTL)
        => /\ served[c2].value = served[c1].value
           /\ served[c2].computed_at = served[c1].computed_at

\* every response is a published snapshot, whole: never the one being built
ServedIsPublished ==
    \A c \in Callers :
        served'[c] # served[c] =>
            /\ served'[c].value = cache'[served'[c].key].value
            /\ served'[c].computed_at = cache'[served'[c].key].computed_at

\* C24: two reads of one key within one TTL are answered with the same cached
\* snapshot, whatever was appended in between, and every answer is a snapshot
\* that was published whole.
CacheServesOneSnapshot ==
    [][SameSnapshotWithinTtl' /\ ServedIsPublished]_vars

\* two callers hold the same snapshot, read at different times, while the
\* table has grown so that recomputing now would answer otherwise
CacheServesOneSnapshotWitness ==
    /\ served[1].status = "ok"
    /\ served[2].status = "ok"
    /\ served[1].computed_at = served[2].computed_at
    /\ served[1].value = served[2].value
    /\ served[1].at < served[2].at
    /\ served[2].at = now
    /\ \A lp \in LatestPricesOutcomes(products, now) :
           served[2].value \notin
               ArbitrageOutcomes(lp.rows, DEFAULT_MIN_MARGIN,
                                 DEFAULT_MIN_PRICE_DIFF, PAGE_LIMIT)

=============================================================================
